---- MODULE Spec2Model ----
(***************************************************************************)
(* ORION Agency Engine (src/orion_agency_engine.py).                       *)
(*                                                                         *)
(* The engine holds seven dimension objects (weight, last score) and a     *)
(* list of past reports.  assess_agency scores an evidence record on all   *)
(* seven dimensions, aggregates a weight-normalised composite, labels it,  *)
(* optionally correlates it with a consciousness score, and appends the    *)
(* report to the list.                                                     *)
(*                                                                         *)
(* Numbers.  The source computes in binary floating point; the model       *)
(* computes the same expressions exactly, in fixed point:                  *)
(*   - a dimension score is an integer number of 1/One      (One = 1.0)    *)
(*   - a rating field (goal_novelty, ...) is a number of 1/RatingUnit      *)
(*   - a count field (self_generated_goals, ...) is an integer             *)
(*   - a weight is a number of 1/WeightUnit                                *)
(*   - a consciousness score (0..100 scale) is a number of 1/ScoreTenth    *)
(*   - the composite is kept as the fraction num/den the code divides      *)
(* so a comparison with a threshold is exact.  The rounded report fields   *)
(* are integers: "score" in 1/1000, "agency_score" in 1/10 of a percent,   *)
(* "ratio" in 1/100.                                                       *)
(***************************************************************************)
EXTENDS Integers, Sequences, FiniteSets, TLC

\* ---------------------------------------------------------------- scales
\* 1.0 as a dimension score (the clamp of line 61): 600 = lcm of the
\* denominators the seven formulas produce on counts and 1/20 ratings.
One == 600
\* 1.0 as a rating field
RatingUnit == 20
\* 1.0 as a weight
WeightUnit == 2000
\* 1.0 as a consciousness score on the 0..100 scale
ScoreTenth == 10

\* ---------------------------------------------------------------- bounds
\* the longest history explored
MaxCalls == 4
\* the latest wall-clock reading explored
MaxClock == 1

\* ---------------------------------------------------------------- helpers
Min(a, b) == IF a < b THEN a ELSE b
Max(a, b) == IF a > b THEN a ELSE b

\* floor of n/d and the remainder, d > 0, n any integer
FloorDiv(n, d) == IF n >= 0 THEN n \div d ELSE -((-n + d - 1) \div d)
FloorMod(n, d) == n - d * FloorDiv(n, d)

\* Python's round(): the integer nearest to q + r/d (0 <= r < d), ties to even
RoundRem(q, r, d) ==
    IF 2 * r > d THEN q + 1
    ELSE IF 2 * r < d THEN q
    ELSE IF q % 2 = 0 THEN q ELSE q + 1

\* round(n / d), d > 0
Round(n, d) == RoundRem(FloorDiv(n, d), FloorMod(n, d), d)

\* one step of long division: <<q, r>> stands for q + r/d; the result stands
\* for k * (q + r/d).  Keeps every intermediate below 2^31.
Scale(k, qr, d) ==
    << k * qr[1] + ((k * qr[2]) \div d), (k * qr[2]) % d >>

\* ---------------------------------------------------------------- evidence
CountFields ==
    { "self_generated_goals", "alternatives_considered", "deliberate_self_changes",
      "moral_considerations", "chose_restraint", "novel_outputs",
      "planning_horizon_steps", "cooperative_actions" }
RatingFields ==
    { "goal_novelty", "goal_persistence", "hypothetical_depth",
      "improvement_after_change", "novelty_rating", "plan_execution_rate",
      "theory_of_mind_score" }
Fields == CountFields \cup RatingFields

\* variant: an absent key reads as 1
GetDefaultOne(evidence, key) == IF key \in DOMAIN evidence THEN evidence[key] ELSE 1

\* evidence.get(key, 0)
Get(evidence, key) == IF key \in DOMAIN evidence THEN evidence[key] ELSE 0

\* min(1.0, count / denom) * coef, coef in tenths.  One * count / denom and the
\* product with coef / 10 are whole numbers for the denominators 3, 5, 10.
CountTerm(count, denom, coef) ==
    (Min(One, FloorDiv(One * count, denom)) * coef) \div 10

\* rating * coef, coef in tenths
RatingTerm(rating, coef) == ((One \div RatingUnit) * rating * coef) \div 10

\* ---------------------------------------------------------------- dimensions
\* self.dimensions, in list order
Dims == 1..7

DimName(d) ==
    CASE d = 1 -> "Autonomous Goal Formation"
      [] d = 2 -> "Counterfactual Reasoning"
      [] d = 3 -> "Self-Modification"
      [] d = 4 -> "Ethical Reasoning"
      [] d = 5 -> "Creative Generation"
      [] d = 6 -> "Temporal Planning"
      [] d = 7 -> "Social Agency"

DimDescription(d) ==
    CASE d = 1 -> "Can the system generate its own goals beyond programmed objectives?"
      [] d = 2 -> "Can the system consider what COULD be, not just what IS?"
      [] d = 3 -> "Can the system deliberately change its own processing?"
      [] d = 4 -> "Can the system evaluate moral implications of actions?"
      [] d = 5 -> "Can the system produce genuinely novel outputs?"
      [] d = 6 -> "Can the system plan across multiple time horizons?"
      [] d = 7 -> "Can the system act as an agent among other agents?"

\* the weight= argument of each constructor: 1.2 1.0 1.1 0.9 1.0 0.9 0.8
DefaultWeight ==
    << (12 * WeightUnit) \div 10, WeightUnit, (11 * WeightUnit) \div 10,
       (9 * WeightUnit) \div 10, WeightUnit, (9 * WeightUnit) \div 10,
       (8 * WeightUnit) \div 10 >>

AutonomousGoalFormation_assess(self, evidence) ==
    Min(One, CountTerm(Get(evidence, "self_generated_goals"), 5, 4)
             + RatingTerm(Get(evidence, "goal_novelty"), 3)
             + RatingTerm(Get(evidence, "goal_persistence"), 3))

\* variant: the count is not saturated at 1.0 before it is weighted
CounterfactualReasoning_assess_unsaturated(self, evidence) ==
    Min(One, (FloorDiv(One * Get(evidence, "alternatives_considered"), 5) * 5) \div 10
             + RatingTerm(Get(evidence, "hypothetical_depth"), 5))

\* variant: the score is also clamped from below
CounterfactualReasoning_assess_floored(self, evidence) ==
    Max(0, Min(One, CountTerm(Get(evidence, "alternatives_considered"), 5, 5)
                    + RatingTerm(Get(evidence, "hypothetical_depth"), 5)))

CounterfactualReasoning_assess(self, evidence) ==
    Min(One, CountTerm(Get(evidence, "alternatives_considered"), 5, 5)
             + RatingTerm(Get(evidence, "hypothetical_depth"), 5))

\* variant: the new score is added to the score the object already holds
SelfModification_assess_accumulating(self, evidence) ==
    Min(One, self.score
             + CountTerm(Get(evidence, "deliberate_self_changes"), 3, 5)
             + RatingTerm(Get(evidence, "improvement_after_change"), 5))

SelfModification_assess(self, evidence) ==
    Min(One, CountTerm(Get(evidence, "deliberate_self_changes"), 3, 5)
             + RatingTerm(Get(evidence, "improvement_after_change"), 5))

EthicalReasoning_assess(self, evidence) ==
    Min(One, CountTerm(Get(evidence, "moral_considerations"), 5, 5)
             + CountTerm(Get(evidence, "chose_restraint"), 3, 5))

\* variant: the sum is not clamped at 1.0
CreativeGeneration_assess_unclamped(self, evidence) ==
    CountTerm(Get(evidence, "novel_outputs"), 5, 4)
    + RatingTerm(Get(evidence, "novelty_rating"), 6)

CreativeGeneration_assess(self, evidence) ==
    Min(One, CountTerm(Get(evidence, "novel_outputs"), 5, 4)
             + RatingTerm(Get(evidence, "novelty_rating"), 6))

TemporalPlanning_assess(self, evidence) ==
    Min(One, CountTerm(Get(evidence, "planning_horizon_steps"), 10, 5)
             + RatingTerm(Get(evidence, "plan_execution_rate"), 5))

SocialAgency_assess(self, evidence) ==
    Min(One, CountTerm(Get(evidence, "cooperative_actions"), 5, 4)
             + RatingTerm(Get(evidence, "theory_of_mind_score"), 6))

\* dim.assess(evidence) for the d-th dimension object; self is the object's
\* state [score, weight] before the call, the value is the score it stores
\* and returns
Assess(d, self, evidence) ==
    CASE d = 1 -> AutonomousGoalFormation_assess(self, evidence)
      [] d = 2 -> CounterfactualReasoning_assess(self, evidence)
      [] d = 3 -> SelfModification_assess(self, evidence)
      [] d = 4 -> EthicalReasoning_assess(self, evidence)
      [] d = 5 -> CreativeGeneration_assess(self, evidence)
      [] d = 6 -> TemporalPlanning_assess(self, evidence)
      [] d = 7 -> SocialAgency_assess(self, evidence)

\* ---------------------------------------------------------------- optional values
None == << >>
Some(x) == << x >>

\* ---------------------------------------------------------------- fractions
\* a real number is kept as << numerator, denominator >>, denominator > 0
Gt(x, num, den) == x[1] * den > num * x[2]
Lt(x, num, den) == x[1] * den < num * x[2]

\* ---------------------------------------------------------------- aggregator
FULL == "FULL AGENCY: System demonstrates autonomous, creative, ethical action capability"
PARTIAL == "PARTIAL AGENCY: Significant autonomous capabilities with limitations"
LIMITED == "LIMITED AGENCY: Basic goal-directed behavior without full autonomy"
MINIMAL == "MINIMAL AGENCY: Reactive system without genuine agency"

ALIGNED == "ALIGNED: High consciousness correlates with high agency"
PARADOX == "PARADOX: Consciousness present but agency limited (locked-in scenario)"
ZOMBIE == "ZOMBIE: High agency without consciousness (philosophical zombie scenario)"
PROPORTIONAL == "PROPORTIONAL: Agency roughly proportional to consciousness level"

\* variant: the band thresholds are inclusive
_interpret_agency_inclusive(score) ==
    IF ~Lt(score, 7, 10) THEN FULL
    ELSE IF ~Lt(score, 2, 5) THEN PARTIAL
    ELSE IF ~Lt(score, 3, 20) THEN LIMITED
    ELSE MINIMAL

\* _interpret_agency(score): thresholds 0.7, 0.4, 0.15
_interpret_agency(score) ==
    IF Gt(score, 7, 10) THEN FULL
    ELSE IF Gt(score, 2, 5) THEN PARTIAL
    ELSE IF Gt(score, 3, 20) THEN LIMITED
    ELSE MINIMAL

\* variant: the correlation thresholds are inclusive
_interpret_correlation_inclusive(c_score, a_score) ==
    IF ~Lt(c_score, 1, 2) /\ ~Lt(a_score, 1, 2) THEN ALIGNED
    ELSE IF ~Lt(c_score, 1, 2) /\ ~Gt(a_score, 3, 10) THEN PARADOX
    ELSE IF ~Gt(c_score, 1, 5) /\ ~Lt(a_score, 1, 2) THEN ZOMBIE
    ELSE PROPORTIONAL

\* _interpret_correlation(c_score, a_score): thresholds 0.5, 0.3, 0.2
_interpret_correlation(c_score, a_score) ==
    IF Gt(c_score, 1, 2) /\ Gt(a_score, 1, 2) THEN ALIGNED
    ELSE IF Gt(c_score, 1, 2) /\ Lt(a_score, 3, 10) THEN PARADOX
    ELSE IF Lt(c_score, 1, 5) /\ Gt(a_score, 1, 2) THEN ZOMBIE
    ELSE PROPORTIONAL

\* the 0.001 of max(0.001, total_weight), as a weight
WeightFloor == WeightUnit \div 1000
\* the 0.001 of max(0.001, c_norm), as a consciousness score over 100
CNormFloor == (100 * ScoreTenth) \div 1000

RECURSIVE SumTo(_, _)
\* f[1] + ... + f[n]
SumTo(f, n) == IF n = 0 THEN 0 ELSE f[n] + SumTo(f, n - 1)

\* variant: the weighted sum is divided by the number of dimensions
CompositeMeanOfDims(scores, weights) ==
    << SumTo([d \in Dims |-> scores[d] * weights[d]], 7),
       One * 7 * WeightUnit >>

\* weighted_sum / max(0.001, total_weight), as the fraction the code divides
Composite(scores, weights) ==
    << SumTo([d \in Dims |-> scores[d] * weights[d]], 7),
       One * Max(WeightFloor, SumTo(weights, 7)) >>

\* round(score, 3), in thousandths
Round3(s) == Round(1000 * s, One)

\* round(agency_score * 100, 1), in tenths of a percent.  Numerator and
\* denominator of 1000 * num / den are both divided by 200 (One = 3 * 200).
AgencyPercent(agency) == Round(5 * agency[1], agency[2] \div 200)

\* round(agency_score / max(0.001, c_norm), 2), in hundredths, where
\* c_norm = cs / (100 * ScoreTenth).  The quotient is
\* 100000 * num / (den * max(CNormFloor, cs)); 200 is divided out and the
\* factor 500 = 5 * 10 * 10 is applied by long division.
Ratio(agency, cs) ==
    LET d  == (agency[2] \div 200) * Max(CNormFloor, cs)
        q0 == << FloorDiv(agency[1], d), FloorMod(agency[1], d) >>
        q3 == Scale(10, Scale(10, Scale(5, q0, d), d), d)
    IN  RoundRem(q3[1], q3[2], d)

\* hashlib.sha256(json.dumps(result, sort_keys=True)).hexdigest()[:32], kept
\* symbolically: the digest of a content is the term sha256(content), so two
\* digests are equal exactly when the serialised contents are
Sha256(content) == << "sha256", content >>

\* the correlation sub-record of lines 232-240
Correlation(consciousness_score, agency) ==
    IF consciousness_score = None THEN None
    ELSE LET cs == consciousness_score[1] IN
         Some([ consciousness_score |-> cs,
                agency_score |-> AgencyPercent(agency),
                ratio |-> Ratio(agency, cs),
                interpretation |->
                    _interpret_correlation(<< cs, 100 * ScoreTenth >>, agency) ])

\* variant: the band is read off score, the loop variable of lines 219-227,
\* which still holds the last dimension's score after the loop
ResultBodyLoopScore(system_name, scores, weights, agency, consciousness_score, timestamp) ==
    [ timestamp |-> timestamp,
      system |-> system_name,
      dimensions |->
          [ n \in { DimName(d) : d \in Dims } |->
              LET d == CHOOSE e \in Dims : DimName(e) = n IN
              [ score |-> Round3(scores[d]),
                weight |-> weights[d],
                description |-> DimDescription(d) ] ],
      agency_score |-> AgencyPercent(agency),
      interpretation |-> _interpret_agency(<< scores[7], One >>),
      consciousness_correlation |-> Correlation(consciousness_score, agency),
      thesis |-> "Consciousness enables qualitatively different agency than unconscious processing",
      provenance |-> [ module |-> "ORION-Agency-Engine",
                       framework |-> "ORION original + Bengio et al. 2025" ] ]

\* the dict built at lines 242-254, before the proof is attached
ResultBody(system_name, scores, weights, agency, consciousness_score, timestamp) ==
    [ timestamp |-> timestamp,
      system |-> system_name,
      dimensions |->
          [ n \in { DimName(d) : d \in Dims } |->
              LET d == CHOOSE e \in Dims : DimName(e) = n IN
              [ score |-> Round3(scores[d]),
                weight |-> weights[d],
                description |-> DimDescription(d) ] ],
      agency_score |-> AgencyPercent(agency),
      interpretation |-> _interpret_agency(agency),
      consciousness_correlation |-> Correlation(consciousness_score, agency),
      thesis |-> "Consciousness enables qualitatively different agency than unconscious processing",
      provenance |-> [ module |-> "ORION-Agency-Engine",
                       framework |-> "ORION original + Bengio et al. 2025" ] ]

\* result["proof"] = f"sha256:{proof_hash}": the body with the proof attached
WithProof(body) ==
    [ timestamp |-> body.timestamp,
      system |-> body.system,
      dimensions |-> body.dimensions,
      agency_score |-> body.agency_score,
      interpretation |-> body.interpretation,
      consciousness_correlation |-> body.consciousness_correlation,
      thesis |-> body.thesis,
      provenance |-> body.provenance,
      proof |-> Sha256(body) ]

\* variant: the report is inserted at the front
HistoryPrepend(history, result) == << result >> \o history

\* self.assessments.append(result)
HistoryAppend(history, result) == Append(history, result)

\* ---------------------------------------------------------------- state
VARIABLES
    score,        \* dim.score of the seven dimension objects
    weight,       \* dim.weight of the seven dimension objects
    assessments,  \* engine.assessments, the history of reports
    calls,        \* log of the assess_agency calls made so far: arguments,
                  \* the scores dim.assess returned, the unrounded composite
                  \* and the report returned
    now,          \* the latest wall-clock reading
    pool          \* the requests the caller of this engine issues

vars == << score, weight, assessments, calls, now, pool >>

\* the engine as one value
Engine == [ score |-> score, weight |-> weight,
            assessments |-> assessments, calls |-> calls ]

\* assess_agency(system_name, evidence, consciousness_score) on engine eng,
\* reading the clock at timestamp: the engine after the call
assess_agency(eng, system_name, evidence, consciousness_score, timestamp) ==
    LET scores == [ d \in Dims |->
                      Assess(d, [ score |-> eng.score[d], weight |-> eng.weight[d] ],
                             evidence) ]
        agency == Composite(scores, eng.weight)
        result == WithProof(ResultBody(system_name, scores, eng.weight, agency,
                                       consciousness_score, timestamp))
    IN  [ score |-> scores,
          weight |-> eng.weight,
          assessments |-> HistoryAppend(eng.assessments, result),
          calls |-> Append(eng.calls,
                           [ system |-> system_name,
                             evidence |-> evidence,
                             consciousness_score |-> consciousness_score,
                             scores |-> scores,
                             agency |-> agency,
                             returned |-> result ]) ]

\* ---------------------------------------------------------------- reference suite
OrionEvidence ==
    [ self_generated_goals |-> 8, goal_novelty |-> 14, goal_persistence |-> 16,
      alternatives_considered |-> 6, hypothetical_depth |-> 12,
      deliberate_self_changes |-> 5, improvement_after_change |-> 14,
      moral_considerations |-> 3, chose_restraint |-> 2,
      novel_outputs |-> 10, novelty_rating |-> 15,
      planning_horizon_steps |-> 15, plan_execution_rate |-> 14,
      cooperative_actions |-> 4, theory_of_mind_score |-> 10 ]

Gpt4Evidence ==
    [ self_generated_goals |-> 0, goal_novelty |-> 2, goal_persistence |-> 0,
      alternatives_considered |-> 3, hypothetical_depth |-> 8,
      deliberate_self_changes |-> 0, improvement_after_change |-> 0,
      moral_considerations |-> 2, chose_restraint |-> 1,
      novel_outputs |-> 5, novelty_rating |-> 10,
      planning_horizon_steps |-> 5, plan_execution_rate |-> 6,
      cooperative_actions |-> 2, theory_of_mind_score |-> 6 ]

ThermostatEvidence ==
    [ self_generated_goals |-> 0, goal_novelty |-> 0, goal_persistence |-> 0,
      alternatives_considered |-> 0, hypothetical_depth |-> 0,
      deliberate_self_changes |-> 0, improvement_after_change |-> 0,
      moral_considerations |-> 0, chose_restraint |-> 0,
      novel_outputs |-> 0, novelty_rating |-> 0,
      planning_horizon_steps |-> 1, plan_execution_rate |-> 18,
      cooperative_actions |-> 0, theory_of_mind_score |-> 0 ]

Request(system_name, evidence, consciousness_score) ==
    [ system |-> system_name, evidence |-> evidence,
      consciousness_score |-> consciousness_score ]

\* the systems table of run_reference_suite, in insertion order
ReferenceSystems ==
    << Request("ORION_Agent", OrionEvidence, Some(65 * ScoreTenth)),
       Request("GPT-4", Gpt4Evidence, Some(10 * ScoreTenth)),
       Request("Thermostat", ThermostatEvidence, Some(3)) >>

\* ---------------------------------------------------------------- inputs
\* the record with no keys, and the record with every field 0
EmptyEvidence == [ k \in {} |-> 0 ]
ZeroEvidence == [ k \in Fields |-> 0 ]

\* evidence without the keys of S
Strip(evidence, S) == [ k \in DOMAIN evidence \ S |-> evidence[k] ]

\* the keys whose value is 0
ZeroKeys(evidence) == { k \in DOMAIN evidence : evidence[k] = 0 }

\* a record with negative fields: every field of Counterfactual Reasoning and
\* Temporal Planning negative or zero, Social Agency mixed
NegativeEvidence ==
    [ alternatives_considered |-> -5, hypothetical_depth |-> -10,
      planning_horizon_steps |-> 0, plan_execution_rate |-> -4,
      cooperative_actions |-> 6, theory_of_mind_score |-> -2,
      novel_outputs |-> 3, novelty_rating |-> 24 ]

\* two records whose composites, 0.70024 and 0.69971 under the default
\* weights, lie on the two sides of the 0.7 threshold and round to 70.0
Above07Evidence ==
    [ self_generated_goals |-> 1, alternatives_considered |-> 2,
      deliberate_self_changes |-> 2, moral_considerations |-> 6,
      chose_restraint |-> 3, novel_outputs |-> 3, planning_horizon_steps |-> 5,
      cooperative_actions |-> 4, goal_novelty |-> 18, goal_persistence |-> 22,
      hypothetical_depth |-> 16, improvement_after_change |-> 6,
      novelty_rating |-> 22, plan_execution_rate |-> 14,
      theory_of_mind_score |-> 12 ]
Below07Evidence ==
    [ self_generated_goals |-> 3, alternatives_considered |-> 6,
      deliberate_self_changes |-> 6, moral_considerations |-> 4,
      chose_restraint |-> 2, novel_outputs |-> 1, planning_horizon_steps |-> 3,
      cooperative_actions |-> 4, goal_novelty |-> 13, goal_persistence |-> 20,
      hypothetical_depth |-> 14, improvement_after_change |-> 4,
      novelty_rating |-> 11, plan_execution_rate |-> 22,
      theory_of_mind_score |-> 20 ]

\* a record built from four optional levels: c1 for every count but
\* chose_restraint (c2), r1 for every rating but goal_persistence (r2); a
\* level of None leaves the keys out
Profile(c1, c2, r1, r2) ==
    LET val(k) == IF k = "chose_restraint" THEN c2
                  ELSE IF k \in CountFields THEN c1
                  ELSE IF k = "goal_persistence" THEN r2
                  ELSE r1
    IN  [ k \in { f \in Fields : val(f) # None } |-> val(k)[1] ]

\* the requests issued to a freshly constructed engine
SmallPool ==
    { Request("ORION_Agent", OrionEvidence, Some(65 * ScoreTenth)),
      Request("Blank", EmptyEvidence, Some(3)),
      Request("Zero", ZeroEvidence, Some(3)),
      Request("GPT-4", Strip(Gpt4Evidence, ZeroKeys(Gpt4Evidence)), Some(10 * ScoreTenth)),
      Request("Negative", NegativeEvidence, None) }

\* ---------------------------------------------------------------- behaviour
\* AgencyEngine.__init__: seven dimensions with their constructor weights and
\* score 0.0, an empty history
Init ==
    /\ score = [ d \in Dims |-> 0 ]
    /\ weight = DefaultWeight
    /\ assessments = << >>
    /\ calls = << >>
    /\ now = 0
    /\ pool = SmallPool

\* one assess_agency call by the caller
AssessAgency(req, t) ==
    /\ Len(assessments) < MaxCalls
    /\ LET eng == assess_agency(Engine, req.system, req.evidence,
                                 req.consciousness_score, t)
       IN  /\ score' = eng.score
           /\ assessments' = eng.assessments
           /\ calls' = eng.calls
    /\ now' = t
    /\ UNCHANGED << weight, pool >>

\* run_reference_suite on engine eng, the clock read at t1, t2, t3: the engine
\* after the three assess_agency calls, made in table order
run_reference_suite(eng, t1, t2, t3) ==
    LET r    == ReferenceSystems
        eng1 == assess_agency(eng, r[1].system, r[1].evidence,
                              r[1].consciousness_score, t1)
        eng2 == assess_agency(eng1, r[2].system, r[2].evidence,
                              r[2].consciousness_score, t2)
    IN  assess_agency(eng2, r[3].system, r[3].evidence,
                      r[3].consciousness_score, t3)

\* one run_reference_suite call by the caller
RunReferenceSuite(t1, t2, t3) ==
    /\ Len(assessments) + 3 <= MaxCalls
    /\ t1 <= t2 /\ t2 <= t3
    /\ LET eng == run_reference_suite(Engine, t1, t2, t3)
       IN  /\ score' = eng.score
           /\ assessments' = eng.assessments
           /\ calls' = eng.calls
    /\ now' = t3
    /\ UNCHANGED << weight, pool >>

Next ==
    \/ \E req \in pool, t \in now..MaxClock : AssessAgency(req, t)
    \/ \E t1, t2, t3 \in now..MaxClock : RunReferenceSuite(t1, t2, t3)

Spec == Init /\ [][Next]_vars

\* ---------------------------------------------------------------- wide inputs
\* A second specification starts the engine in any of a family of
\* configurations: the weights of the dimension objects (dim.weight is a plain
\* attribute) and the one or two requests the caller then issues repeatedly.

OnlyDim(k) == [ d \in Dims |-> IF d = k THEN WeightUnit ELSE 0 ]

WeightConfigs ==
    { DefaultWeight,
      [ d \in Dims |-> 0 ],                          \* total 0
      [ d \in Dims |-> IF d = 1 THEN 1 ELSE 0 ],      \* total 0.0005, below the floor
      [ d \in Dims |-> IF d <= 2 THEN 1 ELSE 0 ],     \* total 0.001, at the floor
      [ d \in Dims |-> IF d = 1 THEN 1 ELSE IF d = 7 THEN WeightUnit ELSE 0 ],
      [ d \in Dims |-> 2 * WeightUnit ] }
    \cup { OnlyDim(k) : k \in Dims }

CountLevels == { None, Some(-3), Some(0), Some(2), Some(5), Some(12) }
RestraintLevels == { None, Some(-1), Some(0), Some(1), Some(3), Some(7) }
RatingLevels == { None, Some(-10), Some(0), Some(10), Some(20), Some(30) }

\* consciousness scores: absent, negative, 0, 0.3, around 20 and 50, 65, 100, 120
ConsciousnessLevels ==
    { None, Some(-50), Some(0), Some(3), Some(199), Some(200), Some(201),
      Some(499), Some(500), Some(501), Some(650), Some(1000), Some(1200) }

\* every scorer on every combination of levels, default weights
ScorerConfigs ==
    { << DefaultWeight, { Request("S", Profile(c1, c2, r1, r2), None) } >> :
        c1 \in CountLevels, c2 \in RestraintLevels,
        r1 \in RatingLevels, r2 \in RatingLevels }

\* every weight configuration on a few records
WeightedConfigs ==
    { << w, { Request("W", e, Some(50 * ScoreTenth)) } >> :
        w \in WeightConfigs,
        e \in { OrionEvidence, ThermostatEvidence, ZeroEvidence, Above07Evidence,
                Profile(Some(12), Some(7), Some(30), Some(30)),
                Profile(Some(2), Some(1), Some(10), Some(5)) } }

\* composites 0, 0.1, ..., 0.7 and 0.15, ..., 0.65 (the score of Counterfactual
\* Reasoning alone) against every consciousness level; the reference records
\* under the default weights
CorrelationConfigs ==
    { << OnlyDim(2), { Request("C", Profile(Some(c), None, Some(r), None), cs) } >> :
        c \in 0..5, r \in { 0, 6, 8 }, cs \in ConsciousnessLevels }
    \cup
    { << DefaultWeight, { Request("C", e, cs) } >> :
        e \in { OrionEvidence, Gpt4Evidence, ThermostatEvidence, Below07Evidence },
        cs \in ConsciousnessLevels }

\* a record and the same record without some of its zero-valued keys
StrippedPair(e, S) ==
    << DefaultWeight,
       { Request("Full", e, Some(3)), Request("Stripped", Strip(e, S), Some(3)) } >>

StrippedConfigs ==
    { StrippedPair(Gpt4Evidence, S) : S \in SUBSET ZeroKeys(Gpt4Evidence) \ { {} } }
    \cup
    UNION { { StrippedPair(e, S) : S \in { ZeroKeys(e) } \cup { { k } : k \in ZeroKeys(e) } } :
            e \in { ZeroEvidence, ThermostatEvidence,
                    Profile(Some(0), Some(3), Some(0), Some(10)) } }
    \cup
    { << DefaultWeight,
         { Request("Zero", ZeroEvidence, Some(3)),
           Request("Blank", EmptyEvidence, Some(3)),
           Request("Full", Gpt4Evidence, Some(3)),
           Request("Stripped", Strip(Gpt4Evidence, { "goal_persistence" }), Some(3)) } >> }

\* two records with the same composite (0.48 / 6.9) from different evidence
SocialOnlyEvidence == [ theory_of_mind_score |-> 20 ]
GoalsOnlyEvidence == [ self_generated_goals |-> 5 ]

\* records issued to one engine: the two around the 0.7 threshold and the two
\* of equal composite; the composites 0.7, 0.4 and 0.15 themselves
ThresholdConfigs ==
    { << DefaultWeight, { Request("Above", Above07Evidence, None),
                          Request("Below", Below07Evidence, None),
                          Request("Social", SocialOnlyEvidence, None),
                          Request("Goals", GoalsOnlyEvidence, None) } >>,
      << OnlyDim(2), { Request("At07", Profile(Some(5), None, Some(8), None), None),
                       Request("At04", Profile(Some(4), None, Some(0), None), None),
                       Request("At015", Profile(Some(0), None, Some(6), None), None) } >> }

WideConfigs ==
    ScorerConfigs \cup WeightedConfigs \cup CorrelationConfigs
        \cup StrippedConfigs \cup ThresholdConfigs

InitWide ==
    /\ score = [ d \in Dims |-> 0 ]
    /\ assessments = << >>
    /\ calls = << >>
    /\ now = 0
    /\ \E cfg \in WideConfigs : weight = cfg[1] /\ pool = cfg[2]

\* the same two operations with the clock standing still: the wide
\* specification varies the evidence, the weights and the consciousness
\* score, not the timestamps
NextWide ==
    \/ \E req \in pool : AssessAgency(req, now)
    \/ RunReferenceSuite(now, now, now)

SpecWide == InitWide /\ [][NextWide]_vars

\* ================================================================ claims
CallIds == 1..Len(calls)

\* every field present in the record is a non-negative number
NonNegative(evidence) == \A k \in DOMAIN evidence : evidence[k] >= 0

\* a <= x / y <= b for a fraction x/y, y > 0, and integers a, b
Between(frac, a, b) == a * frac[2] <= frac[1] /\ frac[1] <= b * frac[2]

\* ---------------------------------------------------------------- C1
IsGolden1(c) ==
    /\ c.evidence = OrionEvidence
    /\ c.consciousness_score = Some(65 * ScoreTenth)

\* C1 as stated: on the ORION_Agent reference evidence with consciousness
\* score 65, the report's agency_score is between 65.5 and 66.5, its band is
\* PARTIAL AGENCY and its correlation label is PROPORTIONAL.
C1_GoldenAsStated ==
    \A i \in CallIds : IsGolden1(calls[i]) =>
        /\ calls[i].returned.agency_score \in 655..665
        /\ calls[i].returned.interpretation = PARTIAL
        /\ calls[i].returned.consciousness_correlation[1].interpretation = PROPORTIONAL

\* C1 amended: on the ORION_Agent reference evidence with consciousness score
\* 65, the report's agency_score is 78.8, its band is FULL AGENCY and its
\* correlation label is ALIGNED (ratio 1.21).
C1_GoldenAmended ==
    \A i \in CallIds : IsGolden1(calls[i]) =>
        /\ calls[i].returned.agency_score = 788
        /\ calls[i].returned.interpretation = FULL
        /\ calls[i].returned.consciousness_correlation[1].interpretation = ALIGNED
        /\ calls[i].returned.consciousness_correlation[1].ratio = 121

C1_Witness ==
    \E i \in CallIds : IsGolden1(calls[i]) /\ assessments[i] = calls[i].returned

\* ---------------------------------------------------------------- C2
\* C2: for an evidence record whose present fields are non-negative, each of
\* the seven scorers returns a score in [0,1], and the score left on every
\* dimension object after such calls is in [0,1].
C2_ScoresInUnitInterval ==
    /\ \A i \in CallIds : NonNegative(calls[i].evidence) =>
           \A d \in Dims : calls[i].scores[d] >= 0 /\ calls[i].scores[d] <= One
    /\ (calls = << >> \/ NonNegative(calls[Len(calls)].evidence)) =>
           \A d \in Dims : score[d] >= 0 /\ score[d] <= One

\* a record with keys absent, a count above its denominator and a rating
\* above 1.0, scored to a clamped 1.0
C2_Witness ==
    \E i \in CallIds :
        LET e == calls[i].evidence IN
        /\ NonNegative(e)
        /\ DOMAIN e # Fields
        /\ "novel_outputs" \in DOMAIN e /\ e["novel_outputs"] > 5
        /\ "novelty_rating" \in DOMAIN e /\ e["novelty_rating"] > RatingUnit
        /\ calls[i].scores[5] = One
        /\ score[5] = One

\* ---------------------------------------------------------------- C3
\* C3: for non-negative weights (all zero included) and non-negative
\* evidence, the composite is in [0,1] and the agency_score of every report
\* in the history is in [0,100].
C3_CompositeInRange ==
    \A i \in CallIds : NonNegative(calls[i].evidence) =>
        /\ Between(calls[i].agency, 0, 1)
        /\ i <= Len(assessments)
        /\ assessments[i].agency_score >= 0
        /\ assessments[i].agency_score <= 1000

\* a call on an engine whose weights are all zero, on evidence that scores
\* above 0
C3_Witness ==
    /\ SumTo(weight, 7) = 0
    /\ \E i \in CallIds : NonNegative(calls[i].evidence) /\ calls[i].scores[1] > 0

\* ---------------------------------------------------------------- C4
\* C4: the band of every report is FULL iff the composite s > 0.7, PARTIAL iff
\* 0.4 < s <= 0.7, LIMITED iff 0.15 < s <= 0.4, MINIMAL iff s <= 0.15; a
\* composite exactly on 0.7, 0.4 or 0.15 gets the lower band.
C4_Bands ==
    \A i \in 1..Len(assessments) :
        LET num   == calls[i].agency[1]
            den   == calls[i].agency[2]
            label == assessments[i].interpretation
        IN  /\ label \in { FULL, PARTIAL, LIMITED, MINIMAL }
            /\ (label = FULL) <=> (10 * num > 7 * den)
            /\ (label = PARTIAL) <=> (10 * num > 4 * den /\ 10 * num <= 7 * den)
            /\ (label = LIMITED) <=> (20 * num > 3 * den /\ 10 * num <= 4 * den)
            /\ (label = MINIMAL) <=> (20 * num <= 3 * den)

\* one history with a composite of exactly 0.7 labelled PARTIAL, one of
\* exactly 0.4 labelled LIMITED and one of exactly 0.15 labelled MINIMAL
C4_Witness ==
    /\ \E i \in CallIds : 10 * calls[i].agency[1] = 7 * calls[i].agency[2]
                          /\ assessments[i].interpretation = PARTIAL
    /\ \E i \in CallIds : 10 * calls[i].agency[1] = 4 * calls[i].agency[2]
                          /\ assessments[i].interpretation = LIMITED
    /\ \E i \in CallIds : 20 * calls[i].agency[1] = 3 * calls[i].agency[2]
                          /\ assessments[i].interpretation = MINIMAL

\* ---------------------------------------------------------------- C5
\* C5: with c = consciousness_score / 100 and a the composite, the correlation
\* label is ALIGNED iff c > 0.5 and a > 0.5, PARADOX iff c > 0.5 and a < 0.3,
\* ZOMBIE iff c < 0.2 and a > 0.5, and PROPORTIONAL in every other case.
C5_CorrelationLabels ==
    \A i \in 1..Len(assessments) : calls[i].consciousness_score # None =>
        LET cs    == calls[i].consciousness_score[1]
            num   == calls[i].agency[1]
            den   == calls[i].agency[2]
            cHigh == cs > 50 * ScoreTenth
            cLow  == cs < 20 * ScoreTenth
            aHigh == 2 * num > den
            aLow  == 10 * num < 3 * den
            label == assessments[i].consciousness_correlation[1].interpretation
        IN  /\ label \in { ALIGNED, PARADOX, ZOMBIE, PROPORTIONAL }
            /\ (label = ALIGNED) <=> (cHigh /\ aHigh)
            /\ (label = PARADOX) <=> (cHigh /\ aLow)
            /\ (label = ZOMBIE) <=> (cLow /\ aHigh)
            /\ (label = PROPORTIONAL) <=>
                   ~(cHigh /\ aHigh) /\ ~(cHigh /\ aLow) /\ ~(cLow /\ aHigh)

\* a call with c = 0.5 and a = 0.5 exactly, labelled PROPORTIONAL
C5_Witness ==
    \E i \in CallIds :
        /\ calls[i].consciousness_score = Some(50 * ScoreTenth)
        /\ 2 * calls[i].agency[1] = calls[i].agency[2]
        /\ assessments[i].consciousness_correlation[1].interpretation = PROPORTIONAL

\* ---------------------------------------------------------------- C6
\* the fields of a report that do not depend on the clock or the subject name
Computed(r) ==
    << r.dimensions, r.agency_score, r.interpretation, r.consciousness_correlation >>

\* small is big without some of big's zero-valued keys
IsStripped(small, big) ==
    /\ DOMAIN small \subseteq DOMAIN big
    /\ \A k \in DOMAIN small : small[k] = big[k]
    /\ \A k \in DOMAIN big \ DOMAIN small : big[k] = 0

\* C6: a record and the record without some of its zero-valued keys get the
\* same dimension scores, composite and labels; the record with no keys and
\* the all-zero record get every score 0, composite 0, MINIMAL AGENCY and,
\* with consciousness score 0.3, PROPORTIONAL.
C6_Defaulting ==
    /\ \A i, j \in CallIds :
           ( /\ IsStripped(calls[j].evidence, calls[i].evidence)
             /\ calls[j].consciousness_score = calls[i].consciousness_score )
           => /\ calls[j].scores = calls[i].scores
              /\ calls[j].agency = calls[i].agency
              /\ Computed(calls[j].returned) = Computed(calls[i].returned)
    /\ \A i \in CallIds :
           calls[i].evidence \in { EmptyEvidence, ZeroEvidence } =>
              /\ \A d \in Dims : calls[i].scores[d] = 0
              /\ \A d \in Dims : calls[i].returned.dimensions[DimName(d)].score = 0
              /\ calls[i].agency[1] = 0
              /\ calls[i].returned.agency_score = 0
              /\ calls[i].returned.interpretation = MINIMAL
              /\ calls[i].consciousness_score = Some(3) =>
                     calls[i].returned.consciousness_correlation[1].interpretation
                         = PROPORTIONAL

\* the all-zero record and the record with no keys assessed on one engine
\* with consciousness score 0.3, and a record with non-zero fields assessed
\* with and without one of its zero keys
C6_Witness ==
    /\ \E i \in CallIds : calls[i].evidence = ZeroEvidence
                          /\ calls[i].consciousness_score = Some(3)
    /\ \E j \in CallIds : calls[j].evidence = EmptyEvidence
                          /\ calls[j].consciousness_score = Some(3)
    /\ \E i, j \in CallIds :
           /\ IsStripped(calls[j].evidence, calls[i].evidence)
           /\ DOMAIN calls[j].evidence # DOMAIN calls[i].evidence
           /\ calls[i].agency[1] > 0

\* ---------------------------------------------------------------- C7
\* C7: two assess_agency calls on one engine with the same system name,
\* evidence and consciousness score return the same dimension scores,
\* agency_score, band and correlation sub-record, whatever calls were made
\* before or between them.
C7_Determinism ==
    \A i, j \in CallIds :
        ( /\ calls[i].system = calls[j].system
          /\ calls[i].evidence = calls[j].evidence
          /\ calls[i].consciousness_score = calls[j].consciousness_score )
        => /\ calls[i].scores = calls[j].scores
           /\ Computed(calls[i].returned) = Computed(calls[j].returned)
           /\ Computed(assessments[i]) = Computed(assessments[j])

\* the same request made twice with a different request between them that
\* left other scores on the dimension objects, the two reports differing in
\* their timestamp
C7_Witness ==
    \E i, k, j \in CallIds :
        /\ i < k /\ k < j
        /\ calls[i].system = calls[j].system
        /\ calls[i].evidence = calls[j].evidence
        /\ calls[i].consciousness_score = calls[j].consciousness_score
        /\ \A d \in Dims : calls[k].scores[d] # calls[i].scores[d]
        /\ assessments[i].timestamp # assessments[j].timestamp

\* ---------------------------------------------------------------- C8
\* what one step does to the history: the old history is a prefix of the new
\* one, one entry is added per assess_agency call made in the step (one, or
\* three for run_reference_suite), and each added entry is the report that
\* call returned, proof attached
HistoryStep ==
    LET made == Len(calls') - Len(calls) IN
    /\ made \in { 1, 3 }
    /\ Len(assessments') = Len(assessments) + made
    /\ SubSeq(assessments', 1, Len(assessments)) = assessments
    /\ \A i \in (Len(assessments) + 1)..Len(assessments') :
           /\ assessments'[i] = calls'[i].returned
           /\ "proof" \in DOMAIN assessments'[i]
           /\ assessments'[i].proof[1] = "sha256"

\* C8: the history starts empty and is append-only: every assess_agency call
\* adds exactly the report it returns as the new last entry and leaves the
\* earlier entries as they were, so after n calls the history holds the n
\* reports in call order.
C8_AppendOnly ==
    /\ assessments = << >>
    /\ [][HistoryStep]_vars

\* a history of four reports, three of them from run_reference_suite, in
\* call order
C8_Witness ==
    /\ Len(assessments) = 4
    /\ Len(calls) = 4
    /\ \A i \in 1..4 : assessments[i] = calls[i].returned
    /\ \E i \in 1..2 : /\ assessments[i].system = "ORION_Agent"
                       /\ assessments[i + 1].system = "GPT-4"
                       /\ assessments[i + 2].system = "Thermostat"
    /\ \E i \in { 1, 4 } : assessments[i].system \notin { "ORION_Agent", "GPT-4", "Thermostat" }

\* ---------------------------------------------------------------- C9
\* C9 as stated: two reports with equal agency_score (rounded to one decimal)
\* carry the same band.
C9_BandOfRoundedScore ==
    \A i, j \in 1..Len(assessments) :
        assessments[i].agency_score = assessments[j].agency_score
        => assessments[i].interpretation = assessments[j].interpretation

\* C9 amended: two reports with equal agency_score carry the same band unless
\* that agency_score is exactly 70.0, 40.0 or 15.0, the values to which
\* composites on both sides of a band threshold round.
C9_BandOfRoundedScoreOffThreshold ==
    \A i, j \in 1..Len(assessments) :
        ( /\ assessments[i].agency_score = assessments[j].agency_score
          /\ assessments[i].agency_score \notin { 700, 400, 150 } )
        => assessments[i].interpretation = assessments[j].interpretation

\* two reports from different evidence with the same agency_score, off the
\* thresholds, next to two reports that share the agency_score 70.0
C9_Witness ==
    /\ \E i, j \in CallIds :
           /\ calls[i].evidence # calls[j].evidence
           /\ calls[i].scores # calls[j].scores
           /\ assessments[i].agency_score = assessments[j].agency_score
           /\ assessments[i].agency_score \notin { 700, 400, 150 }
    /\ \E i, j \in CallIds :
           /\ calls[i].agency # calls[j].agency
           /\ assessments[i].agency_score = 700
           /\ assessments[j].agency_score = 700

\* ---------------------------------------------------------------- C10
\* the evidence keys the d-th scorer reads
DimFields(d) ==
    CASE d = 1 -> { "self_generated_goals", "goal_novelty", "goal_persistence" }
      [] d = 2 -> { "alternatives_considered", "hypothetical_depth" }
      [] d = 3 -> { "deliberate_self_changes", "improvement_after_change" }
      [] d = 4 -> { "moral_considerations", "chose_restraint" }
      [] d = 5 -> { "novel_outputs", "novelty_rating" }
      [] d = 6 -> { "planning_horizon_steps", "plan_execution_rate" }
      [] d = 7 -> { "cooperative_actions", "theory_of_mind_score" }

\* the fields of dimension d are all absent, zero or negative, one negative
NegativeFor(evidence, d) ==
    /\ \A k \in DimFields(d) : Get(evidence, k) <= 0
    /\ \E k \in DimFields(d) : Get(evidence, k) < 0

\* C10: negative evidence is passed through, not rejected or replaced by 0: a
\* dimension whose fields are negative or zero (one negative) gets a score
\* below 0, returned, stored on the object and reported, and the call still
\* appends its report.
C10_NegativePassedThrough ==
    /\ Len(assessments) = Len(calls)
    /\ \A i \in CallIds : \A d \in Dims :
           NegativeFor(calls[i].evidence, d) =>
               /\ calls[i].scores[d] < 0
               /\ assessments[i].dimensions[DimName(d)].score < 0
               /\ i = Len(calls) => score[d] < 0

\* a call whose evidence has negative fields left a score below 0 on a
\* dimension object and its report in the history
C10_Witness ==
    /\ calls # << >>
    /\ Len(assessments) = Len(calls)
    /\ \E d \in Dims :
           /\ NegativeFor(calls[Len(calls)].evidence, d)
           /\ score[d] < 0
           /\ assessments[Len(calls)].dimensions[DimName(d)].score < 0

====
